---- MODULE Spec2Model ----
(***************************************************************************)
(* A model of the crypto-usage-analyzer aggregation-and-layout engine:     *)
(*   src/src/data.rs      AuditEvent, TreeNode (tree builder, statistics)   *)
(*   src/src/sunburst.rs  Segment, SunburstChart (layout, hit test, zoom)   *)
(*   src/src/main.rs      load_and_display, the tree-view selection handler *)
(*                                                                         *)
(* Representation choices.                                                 *)
(*  - Option<T> is a sequence of length 0 (None) or 1 (Some).              *)
(*  - f64 lengths and angles are exact rationals <<num, den>>; angles are  *)
(*    rational multiples of PI, so 2.0 * PI is the rational 2.             *)
(*  - A pointer position is given by what contains_point computes from it  *)
(*    first: its distance from the centre and atan2(dy, dx) in (-PI, PI].  *)
(*  - A label is the sequence of its tokens: the operation name, then      *)
(*    "[", the details separated by "," tokens, and "]".                   *)
(*  - u64 timestamps range over 0..MaxTime, MaxTime standing for u64::MAX. *)
(***************************************************************************)
EXTENDS Integers, Sequences, FiniteSets, TLC

VARIABLES
    data,            \* SunburstChart.data: Option<TreeNode>
    events,          \* SunburstChart.events: Vec<AuditEvent>
    zoom_node,       \* SunburstChart.zoom_node: Option<TreeNode>
    segments,        \* SunburstChart.segments: Vec<Segment>
    hover_segment,   \* SunburstChart.hover_segment: Option<usize>
    selected_path,   \* SunburstChart.selected_path: Vec<String>
    banner_revealed, \* the zoom banner's revealed property
    tree_store,      \* rows of the tree view's root ListStore
    stats_store,     \* rows of the statistics ListStore
    period_labels,   \* texts of the three period labels
    tooltip_text,    \* Option: the drawing area's tooltip
    painted,         \* per segment of the last pass: drawn hovered / selected
    width, height,   \* size of the drawing area
    draw_pending,    \* a queue_draw() not yet served by the draw func
    pointer,         \* Option: the last pointer event handled since the last
                     \* layout pass, as <<handler, position>>
    hit,             \* Option: the segment index its hit-test loop broke at
    panicked,        \* the process has aborted on a panic
    pre_zoom         \* Option: the list a tracked zoom-in left behind, the
                     \* size it was painted at, and whether a zoom-out
                     \* followed (written by the tracked steps only)

vars == <<data, events, zoom_node, segments, hover_segment, selected_path,
          banner_revealed, tree_store, stats_store, period_labels,
          tooltip_text, painted, width, height, draw_pending, pointer, hit, pre_zoom, panicked>>

----------------------------------------------------------------------------
(* Bounds of the model *)

MaxTime == 3

MaxTop == 2

MaxChain == 5

----------------------------------------------------------------------------
(* Generic helpers *)

None == <<>>

Some(x) == <<x>>

Range(s) == {s[i] : i \in 1..Len(s)}

Perms(S) ==
    {s \in [1..Cardinality(S) -> S] :
        \A i, j \in 1..Cardinality(S) : i # j => s[i] # s[j]}

SeqsUpTo(S, n) == UNION {[1..k -> S] : k \in 0..n}

Min(a, b) == IF a <= b THEN a ELSE b

Max(a, b) == IF a >= b THEN a ELSE b

Abs(a) == IF a < 0 THEN -a ELSE a

RECURSIVE GCD(_, _)
GCD(a, b) == IF b = 0 THEN a ELSE GCD(b, a % b)

(* Exact rationals <<n, d>> in lowest terms with d > 0, standing for f64. *)
Rat(n, d) ==
    LET g == GCD(Abs(n), Abs(d))
        s == IF d < 0 THEN -1 ELSE 1
    IN  <<(s * n) \div g, (s * d) \div g>>

RInt(n) == <<n, 1>>

RAdd(x, y) == Rat(x[1] * y[2] + y[1] * x[2], x[2] * y[2])

RSub(x, y) == Rat(x[1] * y[2] - y[1] * x[2], x[2] * y[2])

RMul(x, y) == Rat(x[1] * y[1], x[2] * y[2])

RDiv(x, y) == Rat(x[1] * y[2], x[2] * y[1])

RLt(x, y) == x[1] * y[2] < y[1] * x[2]

RLe(x, y) == x[1] * y[2] <= y[1] * x[2]

RMin(x, y) == IF RLe(x, y) THEN x ELSE y

----------------------------------------------------------------------------
(* serde_json::Value, as far as the code inspects it *)

JNum(n) == [kind |-> "num", num |-> n, str |-> ""]

JStr(s) == [kind |-> "str", num |-> 0, str |-> s]

as_u64(v) == IF v.kind = "num" THEN Some(v.num) ELSE None

as_str(v) == IF v.kind = "str" THEN Some(v.str) ELSE None

(* Display of a serde_json::Value: compact JSON text, strings quoted. *)
JsonText(v) == IF v.kind = "num" THEN ToString(v.num) ELSE "\"" \o v.str \o "\""

get(map, key) == IF key \in DOMAIN map THEN Some(map[key]) ELSE None

----------------------------------------------------------------------------
(* AuditEvent *)

U64_MAX == MaxTime

U64_MIN == 0

HandshakeNames == {"tls::handshake_client", "tls::handshake_server"}

PkNames == {"pk::sign", "pk::verify", "pk::x]"}

(* the tokens an operation name puts into a label: a bracket or a comma in
   the name is a token of its own *)
OpTokens(nm) == IF nm = "pk::x]" THEN <<"pk::x", "]">> ELSE <<nm>>

(* str::starts_with over the operation names and labels of the model *)
starts_with(s, prefix) ==
    CASE prefix = "tls::handshake_" -> s \in HandshakeNames
      [] prefix = "pk::" -> s \in PkNames \cup {"pk::x"}
      [] OTHER -> FALSE

name(event) ==
    LET v == get(event.events, "name")
    IN  IF v # None /\ as_str(v[1]) # None THEN as_str(v[1])[1] ELSE "unknown"

(* the details put side by side without a separator *)
Join_unseparated(details) == details

RECURSIVE Join(_)
(* details.join(", "): the separators are tokens of their own *)
Join(details) ==
    IF Len(details) <= 1 THEN details
    ELSE <<Head(details), ",">> \o Join(Tail(details))

format_details(event) ==
    LET nm == name(event)
        ev == event.events
        version == get(ev, "tls::protocol_version")
        cs == get(ev, "tls::ciphersuite")
        sig == get(ev, "tls::signature_algorithm")
        group == get(ev, "tls::group")
        algo == get(ev, "pk::algorithm")
        bits == get(ev, "pk::bits")
        details ==
            IF starts_with(nm, "tls::handshake_") THEN
                (IF version # None /\ as_u64(version[1]) # None
                 THEN LET v == as_u64(version[1])[1]
                      IN  IF v = 772 THEN <<"TLS 1.3">>
                          ELSE IF v = 771 THEN <<"TLS 1.2">>
                          ELSE <<"version " \o ToString(v)>>
                 ELSE <<>>)
                \o (IF cs # None THEN <<"ciphersuite " \o JsonText(cs[1])>> ELSE <<>>)
            ELSE IF nm = "tls::sign" \/ nm = "tls::verify" THEN
                (IF sig # None /\ as_u64(sig[1]) # None
                 THEN LET s == as_u64(sig[1])[1]
                      IN  IF s = 1027 THEN <<"ecdsa_secp256r1_sha256">>
                          ELSE IF s = 2052 THEN <<"rsa_pss_rsae_sha256">>
                          ELSE <<"unknown">>
                 ELSE <<>>)
            ELSE IF nm = "tls::key_exchange" THEN
                (IF group # None /\ as_u64(group[1]) # None
                 THEN LET g == as_u64(group[1])[1]
                      IN  IF g = 23 THEN <<"secp256r1">>
                          ELSE IF g = 4588 THEN <<"X25519MLKEM768">>
                          ELSE <<"unknown">>
                 ELSE <<>>)
            ELSE IF starts_with(nm, "pk::") THEN
                (IF algo # None /\ as_str(algo[1]) # None
                 THEN <<as_str(algo[1])[1]>> ELSE <<>>)
                \o (IF bits # None THEN <<JsonText(bits[1]) \o " bits">> ELSE <<>>)
            ELSE <<>>
    IN  IF details = <<>> THEN OpTokens(nm)
        ELSE OpTokens(nm) \o <<"[">> \o Join(details) \o <<"]">>

RECURSIVE update_range(_, _)
(* range is <<min_start, max_end>>; the result is the updated pair *)
update_range(event, range) ==
    LET here == <<Min(range[1], event.start), Max(range[2], event.end)>>
        F[i \in 0..Len(event.spans)] ==
            IF i = 0 THEN here ELSE update_range(event.spans[i], F[i - 1])
    IN  F[Len(event.spans)]

get_time_range(evs) ==
    IF evs = <<>> THEN None
    ELSE LET F[i \in 0..Len(evs)] ==
                 IF i = 0 THEN <<U64_MAX, U64_MIN>>
                 ELSE update_range(evs[i], F[i - 1])
             r == F[Len(evs)]
         IN  IF r[1] = U64_MAX \/ r[2] = U64_MIN THEN None ELSE Some(r)

----------------------------------------------------------------------------
(* TreeNode *)

TreeNode(nm, value, children) == [name |-> nm, value |-> value, children |-> children]

RECURSIVE build_event_tree_heavy(_)
(* build_event_tree giving every node the initial value 2 *)
build_event_tree_heavy(event) ==
    TreeNode(format_details(event), 2,
             [i \in 1..Len(event.spans) |-> build_event_tree_heavy(event.spans[i])])

RECURSIVE build_event_tree(_)
build_event_tree(event) ==
    TreeNode(format_details(event), 1,
             [i \in 1..Len(event.spans) |-> build_event_tree(event.spans[i])])

RECURSIVE update_values_unstored(_)
(* update_values without the store of the total into self.value *)
update_values_unstored(node) ==
    IF node.children = <<>> THEN node
    ELSE TreeNode(node.name, node.value,
                  [i \in 1..Len(node.children) |->
                      update_values_unstored(node.children[i])])

RECURSIVE update_values(_)
(* the node after the bottom-up pass; the usize the code returns is its value *)
update_values(node) ==
    IF node.children = <<>> THEN node
    ELSE LET kids == [i \in 1..Len(node.children) |-> update_values(node.children[i])]
             total[i \in 0..Len(kids)] ==
                 IF i = 0 THEN 0 ELSE total[i - 1] + kids[i].value
         IN  TreeNode(node.name, total[Len(kids)], kids)

ContextsOf(evs) == {evs[i].context : i \in 1..Len(evs)}

(* from_events pushing each context's events in reverse *)
from_events_reversed(evs, order) ==
    LET context_events(c) == SelectSeq(evs, LAMBDA e : e.context = c)
        context_node(c) ==
            TreeNode(<<c>>, Len(context_events(c)),
                     [i \in 1..Len(context_events(c)) |->
                         build_event_tree(
                             context_events(c)[Len(context_events(c)) + 1 - i])])
        root == TreeNode(<<"all">>, 0, [i \in 1..Len(order) |-> context_node(order[i])])
    IN  update_values(root)

(* order: the iteration order of context_map, a HashMap (any permutation of
   its keys) *)
from_events(evs, order) ==
    LET context_events(c) == SelectSeq(evs, LAMBDA e : e.context = c)
        context_node(c) ==
            TreeNode(<<c>>, Len(context_events(c)),
                     [i \in 1..Len(context_events(c)) |->
                         build_event_tree(context_events(c)[i])])
        root == TreeNode(<<"all">>, 0, [i \in 1..Len(order) |-> context_node(order[i])])
    IN  update_values(root)

(* str::ends_with("bits") over the detail tokens of the model *)
ends_with_bits(tok) ==
    tok \in {"2048 bits", "256 bits", "\"big\" bits", "rabbits"}

Find(s, tok) ==
    IF \E i \in 1..Len(s) : s[i] = tok
    THEN Some(CHOOSE i \in 1..Len(s) : s[i] = tok /\ \A j \in 1..(i - 1) : s[j] # tok)
    ELSE None

Bump(stats, key, n) ==
    IF key \in DOMAIN stats
    THEN [stats EXCEPT ![key] = @ + n]
    ELSE stats @@ (key :> n)

EmptyStats == [k \in {} |-> 0]

(* &self.name[start + 1..end] panics: the first ']' comes before the
   first '[' *)
slice_panics(node) ==
    LET start == Find(node.name, "[")
        end == Find(node.name, "]")
    IN  /\ starts_with(node.name[1], "pk::")
        /\ start # None
        /\ end # None
        /\ end[1] < start[1] + 1

RECURSIVE extract_panics(_)
(* extract_algorithm_stats panics on the node or somewhere below it *)
extract_panics(node) ==
    \/ slice_panics(node)
    \/ \E i \in 1..Len(node.children) : extract_panics(node.children[i])

RECURSIVE extract_algorithm_stats(_, _)
(* stats is the HashMap<String, usize>; the result is the map afterwards *)
extract_algorithm_stats(node, stats) ==
    LET start == Find(node.name, "[")
        end == Find(node.name, "]")
        details == SubSeq(node.name, start[1] + 1, end[1] - 1)
        parts == SelectSeq(details, LAMBDA t : t # ",")
        counted == SelectSeq(parts, LAMBDA t : ~ends_with_bits(t) /\ t # "")
        own ==
            IF starts_with(node.name[1], "pk::") /\ start # None /\ end # None
               /\ counted # <<>>
            THEN Bump(stats, counted[1], node.value)
            ELSE stats
        F[i \in 0..Len(node.children)] ==
            IF i = 0 THEN own ELSE extract_algorithm_stats(node.children[i], F[i - 1])
    IN  F[Len(node.children)]

----------------------------------------------------------------------------
(* Projections handed to the tree view and the statistics view *)

RECURSIVE tree_node_to_object(_)
(* children is None for a node without children, else Some(rows) *)
tree_node_to_object(node) ==
    [name |-> node.name,
     count |-> ToString(node.value),
     value |-> node.value,
     children |->
        IF node.children = <<>> THEN None
        ELSE Some([i \in 1..Len(node.children) |-> tree_node_to_object(node.children[i])])]

(* the rows of the store after remove_all() and populate_tree_store *)
populate_tree_store(node) ==
    [i \in 1..Len(node.children) |-> tree_node_to_object(node.children[i])]

(* the percentage truncated instead of rounded *)
FloorPercent(a, b) == (100 * a) \div b

(* f64 (a / b * 100.0).round() as u32, for b > 0: half rounds away from zero *)
RoundPercent(a, b) == (200 * a + b) \div (2 * b)

RECURSIVE InsertDesc(_, _)
(* insert pair e into a list sorted by descending count, after its equals *)
InsertDesc(sorted, e) ==
    IF sorted = <<>> THEN <<e>>
    ELSE IF Head(sorted)[2] >= e[2] THEN <<Head(sorted)>> \o InsertDesc(Tail(sorted), e)
    ELSE <<e>> \o sorted

(* slice::sort_by(|a, b| b.1.cmp(&a.1)): stable, descending by count *)
sort_by_count_desc(v) ==
    LET F[i \in 0..Len(v)] == IF i = 0 THEN <<>> ELSE InsertDesc(F[i - 1], v[i])
    IN  F[Len(v)]

StatsOf(node) == extract_algorithm_stats(node, EmptyStats)

(* the rows of the store after populate_stats_store; order is the iteration
   order of the stats HashMap (any permutation of its keys) *)
populate_stats_store(node, order) ==
    LET stats == StatsOf(node)
        sum[i \in 0..Len(order)] == IF i = 0 THEN 0 ELSE sum[i - 1] + stats[order[i]]
        total == sum[Len(order)]
        stats_vec == sort_by_count_desc([i \in 1..Len(order) |-> <<order[i], stats[order[i]]>>])
    IN  [i \in 1..Len(stats_vec) |->
            [algorithm |-> stats_vec[i][1],
             count |-> ToString(stats_vec[i][2]),
             percentage |->
                ToString(IF total > 0 THEN RoundPercent(stats_vec[i][2], total) ELSE 0)
                    \o "%"]]

StatsOrders(node) == Perms(DOMAIN StatsOf(node))

----------------------------------------------------------------------------
(* Segment and the layout pass *)

Segment(node, start_angle, end_angle, inner_radius, outer_radius, depth) ==
    [node |-> node, start_angle |-> start_angle, end_angle |-> end_angle,
     inner_radius |-> inner_radius, outer_radius |-> outer_radius, depth |-> depth]

RingCount == 6

MaxChildDepth == 5

TwoPi == RInt(2)

(* contains_point without the lift of a negative atan2 angle by 2 PI *)
contains_point_unwrapped(seg, p) ==
    IF RLt(p[1], seg.inner_radius) \/ RLt(seg.outer_radius, p[1])
    THEN FALSE
    ELSE RLe(seg.start_angle, p[2]) /\ RLe(p[2], seg.end_angle)

(* p is <<distance, angle>>: the distance sqrt(dx*dx + dy*dy) of the position
   from the centre and dy.atan2(dx) in (-PI, PI], both as the code computes
   them in its first lines *)
contains_point(seg, p) ==
    LET distance == p[1]
        angle == IF RLt(p[2], RInt(0)) THEN RAdd(p[2], TwoPi) ELSE p[2]
    IN  IF RLt(distance, seg.inner_radius) \/ RLt(seg.outer_radius, distance)
        THEN FALSE
        ELSE RLe(seg.start_angle, angle) /\ RLe(angle, seg.end_angle)

(* draw_node without its early return for a node without weight *)
zero_weight_ignored(node) == FALSE

(* the early return for a node without weight *)
zero_weight(node) == node.value = 0

(* <<current_inner, current_outer>>: the ring of a depth *)
ring_of(inner_radius, outer_radius, depth) ==
    LET ring_thickness == RDiv(RSub(outer_radius, inner_radius), RInt(RingCount))
        current_inner == RAdd(inner_radius, RMul(RInt(depth), ring_thickness))
        current_outer == RAdd(current_inner, ring_thickness)
    IN  <<current_inner, current_outer>>

(* the early return without the test for an empty ring *)
ring_rejected_outside_only(current_inner, current_outer, outer_radius) ==
    RLt(outer_radius, current_outer)

(* the early return for a ring outside the radial budget, or an empty one *)
ring_rejected(current_inner, current_outer, outer_radius) ==
    RLt(outer_radius, current_outer) \/ RLe(current_outer, current_inner)

(* the segment inserted at the front of the list instead of pushed *)
push_segment_front(out, seg, is_hovered, is_selected) ==
    <<[seg |-> seg, is_hovered |-> is_hovered, is_selected |-> is_selected]>> \o out

(* segments.push(..), with the highlight decisions of the paint beside it *)
push_segment(out, seg, is_hovered, is_selected) ==
    Append(out, [seg |-> seg, is_hovered |-> is_hovered, is_selected |-> is_selected])

(* the guard of the loop over the children *)
draws_children(node, depth) == node.children # <<>> /\ depth < MaxChildDepth

(* every child given the same share of the parent's span *)
child_angle_span_equal(angle_span, child, node) ==
    RDiv(angle_span, RInt(Len(node.children)))

child_angle_span(angle_span, child, node) ==
    RMul(angle_span, Rat(child.value, node.value))

RECURSIVE draw_node(_, _, _, _, _, _, _, _, _, _)
(* out is the output so far, one entry per segment pushed; the result is out
   afterwards *)
draw_node(node, start_angle, end_angle, inner_radius, outer_radius, depth, out, hover, selected, current_path) ==
    IF zero_weight(node) THEN out
    ELSE
    LET ring == ring_of(inner_radius, outer_radius, depth)
        current_inner == ring[1]
        current_outer == ring[2]
    IN  IF ring_rejected(current_inner, current_outer, outer_radius)
        THEN out
        ELSE
        LET segment_idx == Len(out)
            is_hovered == hover = Some(segment_idx)
            path_with_current == Append(current_path, node.name)
            is_selected == selected # <<>> /\ selected = path_with_current
            pushed == push_segment(out,
                                   Segment(node, start_angle, end_angle,
                                           current_inner, current_outer, depth),
                                   is_hovered, is_selected)
            angle_span == RSub(end_angle, start_angle)
            (* after child i: <<current_angle, out>> *)
            F[i \in 0..Len(node.children)] ==
                IF i = 0 THEN <<start_angle, pushed>>
                ELSE LET child == node.children[i]
                         before == F[i - 1]
                         current_angle == before[1]
                         child_end_angle ==
                             RAdd(current_angle,
                                  child_angle_span(angle_span, child, node))
                     IN  <<child_end_angle,
                           draw_node(child, current_angle, child_end_angle,
                                     inner_radius, outer_radius, depth + 1,
                                     before[2], hover, selected,
                                     path_with_current)>>
        IN  IF draws_children(node, depth)
            THEN F[Len(node.children)][2]
            ELSE pushed

(* the root the draw func lays out: zoom_node, else data, else nothing *)
DisplayRoot(zoom, dat) == IF zoom # None THEN zoom ELSE dat

(* the draw func starting the root at depth 1 *)
Layout_from_depth_one(root, w, h, hover, selected) ==
    LET cx == Rat(w, 2)
        cy == Rat(h, 2)
        max_radius == RSub(RMin(cx, cy), RInt(20))
    IN  draw_node(root, RInt(0), TwoPi, RInt(0), max_radius, 1, <<>>,
                  hover, selected, <<>>)

(* the output of the draw func's call of draw_node for a root and a size *)
Layout(root, w, h, hover, selected) ==
    LET cx == Rat(w, 2)
        cy == Rat(h, 2)
        max_radius == RSub(RMin(cx, cy), RInt(20))
    IN  draw_node(root, RInt(0), TwoPi, RInt(0), max_radius, 0, <<>>,
                  hover, selected, <<>>)

(* the reversed scan of both pointer handlers: the index (0-based, as
   enumerate() gives it) of the last segment containing p *)
RECURSIVE find_segment_from(_, _, _)
find_segment_from(segs, i, p) ==
    IF i = 0 THEN None
    ELSE IF contains_point(segs[i], p) THEN Some(i - 1)
    ELSE find_segment_from(segs, i - 1, p)

(* the scan run forwards: the first segment containing p *)
find_segment_first(segs, p) ==
    IF \E i \in 1..Len(segs) : contains_point(segs[i], p)
    THEN Some((CHOOSE i \in 1..Len(segs) :
                  /\ contains_point(segs[i], p)
                  /\ \A j \in 1..(i - 1) : ~contains_point(segs[j], p)) - 1)
    ELSE None

find_segment(segs, p) == find_segment_from(segs, Len(segs), p)

(* Segment::format_tooltip: name, count, number of children, and the top five
   children by value with their rounded share *)
format_tooltip(seg) ==
    LET kids == seg.node.children
        sorted == sort_by_count_desc([i \in 1..Len(kids) |-> <<kids[i].name, kids[i].value>>])
        top == SubSeq(sorted, 1, Min(5, Len(sorted)))
    IN  [name |-> seg.node.name,
         count |-> seg.node.value,
         children |-> Len(kids),
         top |-> [i \in 1..Len(top) |->
                    <<top[i][1], RoundPercent(top[i][2], seg.node.value)>>]]

----------------------------------------------------------------------------
(* Input events *)

AuditEvent(context, start, end, evmap, spans) ==
    [context |-> context, origin |-> "x", start |-> start, end |-> end,
     events |-> evmap, spans |-> spans]

EvPkRsa ==
    ("name" :> JStr("pk::sign")) @@ ("pk::algorithm" :> JStr("rsa"))
        @@ ("pk::bits" :> JNum(2048))

EvPkEcdsa == ("name" :> JStr("pk::verify")) @@ ("pk::algorithm" :> JStr("ecdsa"))

EvHandshake ==
    ("name" :> JStr("tls::handshake_client")) @@ ("tls::protocol_version" :> JNum(772))

EvKeyExchange == ("name" :> JStr("tls::key_exchange")) @@ ("tls::group" :> JNum(23))

EvPlain == ("name" :> JStr("other::op"))

(* a pk:: operation whose name holds a closing bracket *)
EvPkBracket == ("name" :> JStr("pk::x]")) @@ ("pk::algorithm" :> JStr("rsa"))

(* a pk:: operation with a bit length only, and one whose algorithm name
   ends in "bits" *)
EvPkBitsOnly == ("name" :> JStr("pk::sign")) @@ ("pk::bits" :> JNum(256))

EvPkRabbits ==
    ("name" :> JStr("pk::verify")) @@ ("pk::algorithm" :> JStr("rabbits"))
        @@ ("pk::bits" :> JNum(2048))

Contexts == {"p1", "p2"}

OtherContext(c) == IF c = "p1" THEN "p2" ELSE "p1"

(* a span-less event *)
LeafEvent(c) == AuditEvent(c, 1, 2, EvPkRsa, <<>>)

(* an event with two spans, the first recorded under another context *)
TwoSpanEvent(c) ==
    AuditEvent(c, 1, 2, EvHandshake,
        <<AuditEvent(OtherContext(c), 1, 1, EvKeyExchange, <<>>),
          AuditEvent(c, 2, 2, EvPkEcdsa, <<>>)>>)

(* an event with a span that has a span *)
NestedEvent(c) ==
    AuditEvent(c, 0, 2, EvPlain,
        <<AuditEvent(c, 1, 2, EvPkRsa,
            <<AuditEvent(c, 1, 1, EvPkEcdsa, <<>>)>>)>>)

TopEvents == UNION {{LeafEvent(c), TwoSpanEvent(c), NestedEvent(c)} : c \in Contexts}

ShapeForests == SeqsUpTo(TopEvents, MaxTop)

RECURSIVE Chain(_, _)
(* d events nested one in the next; the innermost has the spans bottom *)
Chain(d, bottom) ==
    AuditEvent("p1", 1, 2, EvPlain,
               IF d <= 1 THEN bottom ELSE <<Chain(d - 1, bottom)>>)

ChainForests ==
    {<<Chain(d, bottom)>> :
        d \in 1..MaxChain,
        bottom \in {<<>>, <<LeafEvent("p1"), LeafEvent("p2")>>}}

Times == 0..MaxTime

TimedEvent(s, e, spans) == AuditEvent("p1", s, e, EvPlain, spans)

TimeForests ==
    {<<TimedEvent(s, e, <<>>)>> : s \in Times, e \in Times}
    \cup {<<TimedEvent(t[1], t[2], <<TimedEvent(t[3], t[4], <<>>)>>)>> :
            t \in Times \X Times \X Times \X Times}
    \cup {<<TimedEvent(t[1], t[2], <<>>), TimedEvent(t[3], t[4], <<>>)>> :
            t \in Times \X Times \X {0, MaxTime} \X {0, MaxTime}}

(* events for the labelling rule: every operation name of the table, one
   outside it and a missing one, each with any choice of attribute values *)
LabelNames ==
    {"tls::handshake_client", "tls::handshake_server", "tls::sign", "tls::verify",
     "tls::key_exchange", "pk::sign", "pk::verify", "other::op"}

(* the maps with key k bound to one of the values vs, or without k *)
Optional(k, vs) == {[x \in {} |-> JNum(0)]} \cup {k :> v : v \in vs}

LabelMaps ==
    {n @@ a[1] @@ a[2] @@ a[3] @@ a[4] @@ a[5] @@ a[6] :
        n \in Optional("name", {JStr(x) : x \in LabelNames}),
        a \in Optional("tls::protocol_version",
                       {JNum(772), JNum(771), JNum(770), JStr("772")})
              \X Optional("tls::ciphersuite", {JStr("TLS_AES")})
              \X Optional("tls::signature_algorithm", {JNum(1027), JNum(2052), JNum(9)})
              \X Optional("tls::group", {JNum(23), JNum(4588), JNum(9)})
              \X Optional("pk::algorithm", {JStr("rsa"), JNum(7)})
              \X Optional("pk::bits", {JNum(2048)})}

LabelForests == {<<AuditEvent("p1", 1, 2, m, <<>>)>> : m \in LabelMaps}

(* files for the statistics: the shapes, and pk:: events alone, nested in
   one another, and beside a qualifying one *)
StatsEvents == {EvPkRsa, EvPkEcdsa, EvPkBitsOnly, EvPkRabbits, EvPkBracket, EvPlain}

StatsForests ==
    ShapeForests
    \cup {<<AuditEvent("p1", 1, 2, a, <<AuditEvent("p1", 1, 2, b, <<>>)>>)>> :
            a \in StatsEvents, b \in StatsEvents}
    \cup {<<AuditEvent("p1", 1, 2, a, <<>>), LeafEvent("p2")>> : a \in StatsEvents}

BuildForests == ShapeForests \cup ChainForests \cup TimeForests

LayoutEvents ==
    {LeafEvent("p1"), LeafEvent("p2"), TwoSpanEvent("p2"), NestedEvent("p1")}

LayoutForests == SeqsUpTo(LayoutEvents, MaxTop) \cup ChainForests

NavForests ==
    {<<>>,
     <<LeafEvent("p1"), TwoSpanEvent("p2")>>,
     <<NestedEvent("p1")>>}

(* widget sizes: one without a radial budget (40 wide), others with one
   whose sixth is a whole number, so that the f64 ring bounds are exact *)
Viewports == {<<40, 76>>, <<76, 76>>, <<112, 112>>}

NavViewports == {<<40, 76>>, <<76, 76>>}

(* the files and the one widget size of a whole session *)
SessionForests == {<<>>, <<LeafEvent("p1"), TwoSpanEvent("p1")>>}

SessionViewports == {<<76, 76>>}

(* the position at distance r and angle a (in [0, 2 PI]) from the centre:
   atan2 of its offset is a itself up to PI and a - 2 PI beyond *)
FromPolar(r, a) ==
    <<r, IF RLe(a, RInt(1)) THEN a
         ELSE IF a = TwoPi THEN RInt(0) ELSE RSub(a, TwoPi)>>

Half(x, y) == RDiv(RAdd(x, y), RInt(2))

Midpoint(seg) ==
    FromPolar(Half(seg.inner_radius, seg.outer_radius),
              Half(seg.start_angle, seg.end_angle))

(* pointer positions worth trying against a segment list: each segment's
   midpoint and two of its corners, the centre, and a far position *)
PointsOf(segs) ==
    {Midpoint(segs[i]) : i \in 1..Len(segs)}
    \cup {FromPolar(segs[i].inner_radius, segs[i].start_angle) : i \in 1..Len(segs)}
    \cup {FromPolar(segs[i].outer_radius, segs[i].end_angle) : i \in 1..Len(segs)}
    \cup {<<RInt(0), RInt(0)>>, <<RInt(1000), RInt(1)>>}

MidpointsOf(segs) == {Midpoint(segs[i]) : i \in 1..Len(segs)}

(* each segment's midpoint, and a far position *)
SessionPoints(segs) == MidpointsOf(segs) \cup {<<RInt(1000), RInt(1)>>}

----------------------------------------------------------------------------
(* Period labels *)

NotLoaded == <<"Start: Not loaded", "End: Not loaded", "Duration: Not loaded">>

(* format_rfc3339(boot_time + Duration::from_nanos(ns)) *)
TimeText(ns) == "boot+" \o ToString(ns) \o "ns"

(* the label texts after update_period_labels, given the texts before *)
update_period_labels(evs, labels) ==
    LET range == get_time_range(evs)
    IN  IF range # None /\ range[1][2] >= range[1][1]
        THEN <<"Start: " \o TimeText(range[1][1]),
               "End: " \o TimeText(range[1][2]),
               "Duration: " \o ToString(range[1][2] - range[1][1]) \o "ns">>
        ELSE labels

----------------------------------------------------------------------------
(* The chart: state after SunburstChart::new and build_ui *)

Init ==
    /\ data = None
    /\ events = <<>>
    /\ zoom_node = None
    /\ segments = <<>>
    /\ hover_segment = None
    /\ selected_path = <<>>
    /\ banner_revealed = FALSE
    /\ tree_store = <<>>
    /\ stats_store = <<>>
    /\ period_labels = NotLoaded
    /\ tooltip_text = None
    /\ painted = <<>>
    /\ width = 0
    /\ height = 0
    /\ draw_pending = FALSE
    /\ pointer = None
    /\ hit = None
    /\ pre_zoom = None
    /\ panicked = FALSE

(* SunburstChart::set_data; stats_order is the stats HashMap's iteration
   order. A panic in populate_stats_store comes after its remove_all() and
   ends the process before the labels are updated and the draw is queued. *)
set_data(tree, evs, stats_order) ==
    /\ ~panicked
    /\ data' = Some(tree)
    /\ events' = evs
    /\ zoom_node' = None
    /\ banner_revealed' = FALSE
    /\ tree_store' = populate_tree_store(tree)
    /\ IF extract_panics(tree)
       THEN /\ stats_store' = <<>>
            /\ panicked' = TRUE
            /\ UNCHANGED <<period_labels, draw_pending>>
       ELSE /\ stats_store' = populate_stats_store(tree, stats_order)
            /\ period_labels' = update_period_labels(evs, period_labels)
            /\ draw_pending' = TRUE
            /\ UNCHANGED panicked
    /\ UNCHANGED <<segments, hover_segment, selected_path, tooltip_text, painted,
                   width, height, pointer, hit, pre_zoom>>

(* load_and_display of a file holding evs *)
load_and_display(evs) ==
    \E order \in Perms(ContextsOf(evs)) :
        LET tree == from_events(evs, order)
        IN  \E stats_order \in StatsOrders(tree) : set_data(tree, evs, stats_order)

(* the draw func *)
Draw ==
    /\ ~panicked
    /\ draw_pending
    /\ IF zoom_node = None /\ data = None
       THEN UNCHANGED <<segments, painted>>
       ELSE LET root == DisplayRoot(zoom_node, data)[1]
                out == Layout(root, width, height, hover_segment, selected_path)
            IN  /\ segments' = [i \in 1..Len(out) |-> out[i].seg]
                /\ painted' = [i \in 1..Len(out) |->
                                  [is_hovered |-> out[i].is_hovered,
                                   is_selected |-> out[i].is_selected]]
    /\ draw_pending' = FALSE
    /\ pointer' = None
    /\ hit' = None
    /\ UNCHANGED <<data, events, zoom_node, hover_segment, selected_path,
                   banner_revealed, tree_store, stats_store, period_labels,
                   tooltip_text, width, height, pre_zoom, panicked>>

(* the widget is given a new size, which invalidates it *)
Resize(w, h) ==
    /\ ~panicked
    /\ <<w, h>> # <<width, height>>
    /\ width' = w
    /\ height' = h
    /\ draw_pending' = TRUE
    /\ UNCHANGED <<data, events, zoom_node, segments, hover_segment, selected_path,
                   banner_revealed, tree_store, stats_store, period_labels,
                   tooltip_text, painted, pointer, hit, pre_zoom, panicked>>

(* the motion handler queueing a draw whatever it resolved *)
Motion_always_redraws(p) ==
    LET found == find_segment(segments, p)
    IN  /\ ~panicked
        /\ tooltip_text' = IF found # None
                           THEN Some(format_tooltip(segments[found[1] + 1]))
                           ELSE None
        /\ hover_segment' = found
        /\ draw_pending' = TRUE
        /\ pointer' = Some(<<"motion", p>>)
        /\ hit' = found
        /\ UNCHANGED <<data, events, zoom_node, segments, selected_path,
                       banner_revealed, tree_store, stats_store, period_labels,
                       painted, width, height, pre_zoom, panicked>>

(* the motion handler, for a pointer at p *)
Motion(p) ==
    LET found == find_segment(segments, p)
    IN  /\ ~panicked
        /\ tooltip_text' = IF found # None
                           THEN Some(format_tooltip(segments[found[1] + 1]))
                           ELSE None
        /\ IF hover_segment # found
           THEN hover_segment' = found /\ draw_pending' = TRUE
           ELSE UNCHANGED <<hover_segment, draw_pending>>
        /\ pointer' = Some(<<"motion", p>>)
        /\ hit' = found
        /\ UNCHANGED <<data, events, zoom_node, segments, selected_path,
                       banner_revealed, tree_store, stats_store, period_labels,
                       painted, width, height, pre_zoom, panicked>>

(* the zoom-out without the selection highlighting being cleared *)
ResetZoom_keeps_selection ==
    /\ zoom_node' = None
    /\ banner_revealed' = FALSE
    /\ IF data # None
       THEN /\ tree_store' = populate_tree_store(data[1])
            /\ \E stats_order \in StatsOrders(data[1]) :
                   stats_store' = populate_stats_store(data[1], stats_order)
       ELSE UNCHANGED <<tree_store, stats_store>>
    /\ selected_path' = selected_path
    /\ draw_pending' = TRUE

(* the zoom-out leaving the zoom node in place *)
ResetZoom_keeps_zoom ==
    /\ zoom_node' = zoom_node
    /\ banner_revealed' = FALSE
    /\ IF data # None
       THEN /\ tree_store' = populate_tree_store(data[1])
            /\ \E stats_order \in StatsOrders(data[1]) :
                   stats_store' = populate_stats_store(data[1], stats_order)
       ELSE UNCHANGED <<tree_store, stats_store>>
    /\ selected_path' = <<>>
    /\ draw_pending' = TRUE

(* the zoom-out both the depth-0 branch of the click handler and the banner
   button perform *)
ResetZoom ==
    /\ zoom_node' = None
    /\ banner_revealed' = FALSE
    /\ IF data # None
       THEN /\ tree_store' = populate_tree_store(data[1])
            /\ \E stats_order \in StatsOrders(data[1]) :
                   stats_store' = populate_stats_store(data[1], stats_order)
       ELSE UNCHANGED <<tree_store, stats_store>>
    /\ selected_path' = <<>>
    /\ draw_pending' = TRUE

(* the zoom-in without the statistics being projected again *)
ZoomInto_keeps_stats(seg) ==
    /\ zoom_node' = Some(seg.node)
    /\ banner_revealed' = TRUE
    /\ tree_store' = populate_tree_store(seg.node)
    /\ stats_store' = stats_store
    /\ selected_path' = <<>>
    /\ draw_pending' = TRUE

(* the zoom-in the other branch of the click handler performs on seg *)
ZoomInto(seg) ==
    /\ zoom_node' = Some(seg.node)
    /\ banner_revealed' = TRUE
    /\ tree_store' = populate_tree_store(seg.node)
    /\ \E stats_order \in StatsOrders(seg.node) :
           stats_store' = populate_stats_store(seg.node, stats_order)
    /\ selected_path' = <<>>
    /\ draw_pending' = TRUE

(* the released handler of the click gesture, for a pointer at p *)
released(p) ==
    LET found == find_segment(segments, p)
    IN  /\ ~panicked
        /\ pointer' = Some(<<"click", p>>)
        /\ hit' = found
        /\ IF found = None
           THEN UNCHANGED <<zoom_node, banner_revealed, tree_store, stats_store,
                            selected_path, draw_pending>>
           ELSE LET seg == segments[found[1] + 1]
                IN  IF seg.depth = 0
                    THEN ResetZoom
                    ELSE ZoomInto(seg)
        /\ UNCHANGED <<data, events, segments, hover_segment, period_labels,
                       tooltip_text, painted, width, height, panicked>>

(* a click is released at p *)
Click(p) == released(p) /\ UNCHANGED pre_zoom

(* the button_clicked handler of the banner, whose button is offered while
   the banner is revealed *)
button_clicked ==
    /\ ~panicked
    /\ banner_revealed
    /\ ResetZoom
    /\ UNCHANGED <<data, events, segments, hover_segment, period_labels,
                   tooltip_text, painted, width, height, pointer, hit, panicked>>

(* the banner's button is pressed *)
Reset == button_clicked /\ UNCHANGED pre_zoom

(* pre_zoom after a zoom-in: a zoom-in from a painted unzoomed view records
   its list and size; any other one only notes that the view is zoomed *)
AfterZoomIn ==
    IF zoom_node = None /\ ~draw_pending
    THEN Some([segs |-> segments, width |-> width, height |-> height,
               back |-> FALSE])
    ELSE IF pre_zoom = None THEN None
    ELSE Some([pre_zoom[1] EXCEPT !.back = FALSE])

(* pre_zoom after a zoom-out *)
AfterZoomOut ==
    IF pre_zoom = None THEN None ELSE Some([pre_zoom[1] EXCEPT !.back = TRUE])

(* a click is released at p, and the round trip is tracked *)
TrackedClick(p) ==
    /\ released(p)
    /\ LET found == find_segment(segments, p)
       IN  pre_zoom' = IF found = None THEN pre_zoom
                       ELSE IF segments[found[1] + 1].depth = 0 THEN AfterZoomOut
                       ELSE AfterZoomIn

(* the banner's button is pressed, and the round trip is tracked *)
TrackedReset == button_clicked /\ pre_zoom' = AfterZoomOut

RECURSIVE RowPaths(_)
(* the name paths, top-level row first, of all rows under the given rows *)
RowPaths(rows) ==
    UNION {{<<rows[i].name>>}
           \cup (IF rows[i].children = None THEN {}
                 ELSE {<<rows[i].name>> \o q : q \in RowPaths(rows[i].children[1])})
           : i \in 1..Len(rows)}

(* SunburstChart::set_selected_path *)
set_selected_path(path) ==
    /\ selected_path' = path
    /\ draw_pending' = TRUE

(* the selection_changed handler: a row of the tree view, or none, is selected *)
SelectionChanged ==
    /\ ~panicked
    /\ \E path \in RowPaths(tree_store) \cup {<<>>} : set_selected_path(path)
    /\ UNCHANGED <<data, events, zoom_node, segments, hover_segment,
                   banner_revealed, tree_store, stats_store, period_labels,
                   tooltip_text, painted, width, height, pointer, hit, pre_zoom, panicked>>

----------------------------------------------------------------------------
(* Specifications *)

(* The whole program: files are opened one after another, the widget is
   resized, and the pointer moves and clicks at any time, also on a chart
   whose repaint is still pending. *)
Load == \E evs \in SessionForests : load_and_display(evs)

Resized == \E v \in SessionViewports : Resize(v[1], v[2])

PointerMoved == \E p \in SessionPoints(segments) : Motion(p)

Clicked == \E p \in SessionPoints(segments) : Click(p)

Next ==
    \/ Load
    \/ Draw
    \/ Resized
    \/ PointerMoved
    \/ Clicked
    \/ Reset
    \/ SelectionChanged

Spec == Init /\ [][Next]_vars

(* Building: one file out of the wide input set is opened and painted at
   any widget size. *)
LoadOnce == data = None /\ \E evs \in BuildForests : load_and_display(evs)

ResizedAny == \E v \in Viewports : Resize(v[1], v[2])

NextBuild ==
    \/ LoadOnce
    \/ Draw
    \/ ResizedAny

SpecBuild == Init /\ [][NextBuild]_vars

(* Statistics: one file out of the statistics input set is opened and
   painted. *)
LoadStats == data = None /\ \E evs \in StatsForests : load_and_display(evs)

NextStats ==
    \/ LoadStats
    \/ Draw
    \/ ResizedAny

SpecStats == Init /\ [][NextStats]_vars

(* Periods: files of one timed event, and the empty file, are opened one
   after another in one window. *)
PeriodForests == {<<>>} \cup {<<TimedEvent(s, e, <<>>)>> : s \in Times, e \in Times}

LoadPeriod == \E evs \in PeriodForests : load_and_display(evs)

NextPeriod ==
    \/ LoadPeriod
    \/ Draw

SpecPeriod == Init /\ [][NextPeriod]_vars

(* Labelling: one file holding one event out of the labelling input set is
   opened and painted. *)
LoadLabel == data = None /\ \E evs \in LabelForests : load_and_display(evs)

NextLabel ==
    \/ LoadLabel
    \/ Draw

SpecLabel == Init /\ [][NextLabel]_vars

(* Layout: one file of nested events is opened, and the painted chart is
   zoomed in and out by clicks on its segments. *)
LoadShape == data = None /\ \E evs \in LayoutForests : load_and_display(evs)

ClickedOnPainted == ~draw_pending /\ \E p \in MidpointsOf(segments) : Click(p)

NextLayout ==
    \/ LoadShape
    \/ Draw
    \/ ResizedAny
    \/ ClickedOnPainted

SpecLayout == Init /\ [][NextLayout]_vars

(* Rings: one file of events nested up to beyond the last ring is opened and
   painted at widget sizes with a negative, a zero and a positive radial
   budget. *)
RingViewports == {<<20, 76>>, <<40, 76>>, <<76, 76>>, <<112, 112>>}

LoadChain == data = None /\ \E evs \in ChainForests : load_and_display(evs)

ResizedRing == \E v \in RingViewports : Resize(v[1], v[2])

NextRing ==
    \/ LoadChain
    \/ Draw
    \/ ResizedRing

SpecRing == Init /\ [][NextRing]_vars

(* Pointer: one file is opened, and the pointer is moved and clicked on the
   painted chart, at segment midpoints, at segment corners and off the chart. *)
LoadNav == data = None /\ \E evs \in NavForests : load_and_display(evs)

ResizedNav == \E v \in NavViewports : Resize(v[1], v[2])

MovedOnPainted == ~draw_pending /\ \E p \in PointsOf(segments) : Motion(p)

ClickedAnywhere == ~draw_pending /\ \E p \in PointsOf(segments) : Click(p)

NextPointer ==
    \/ LoadNav
    \/ Draw
    \/ ResizedNav
    \/ MovedOnPainted
    \/ ClickedAnywhere

SpecPointer == Init /\ [][NextPointer]_vars

(* Navigation: one file is opened; the pointer clicks at any time, also on
   a list whose repaint is pending; the banner's button is pressed and rows
   of the tree view are selected. *)
NavPoints(segs) == MidpointsOf(segs) \cup {<<RInt(1000), RInt(1)>>}

ClickedNav == \E p \in NavPoints(segments) : Click(p)

MovedNav == \E p \in NavPoints(segments) : Motion(p)

NextNav ==
    \/ LoadNav
    \/ Draw
    \/ ResizedNav
    \/ ClickedNav
    \/ Reset
    \/ SelectionChanged

SpecNav == Init /\ [][NextNav]_vars

(* Round trip: as Navigation, with every zoom-in and zoom-out tracked. *)
ClickedTracked == \E p \in NavPoints(segments) : TrackedClick(p)

NextTrip ==
    \/ LoadNav
    \/ Draw
    \/ ResizedNav
    \/ ClickedTracked
    \/ TrackedReset
    \/ SelectionChanged

SpecTrip == Init /\ [][NextTrip]_vars

(* Hovering: one file is opened in a widget of one size; the pointer moves
   and clicks at any time, and rows of the tree view are selected. *)
HoverForests == {<<>>, <<NestedEvent("p1")>>}

LoadHover == data = None /\ \E evs \in HoverForests : load_and_display(evs)

ResizedHover == \E v \in SessionViewports : Resize(v[1], v[2])

NextHover ==
    \/ LoadHover
    \/ Draw
    \/ ResizedHover
    \/ ClickedNav
    \/ MovedNav
    \/ SelectionChanged

SpecHover == Init /\ [][NextHover]_vars

(* Reloading: files are opened one after another in one window, and clicks
   arrive at any time, before the repaint a load has queued included. *)
ReloadForests == {<<LeafEvent("p1")>>, <<NestedEvent("p2")>>}

Reload == \E evs \in ReloadForests : load_and_display(evs)

NextReload ==
    \/ Reload
    \/ Draw
    \/ ResizedHover
    \/ ClickedNav

SpecReload == Init /\ [][NextReload]_vars

----------------------------------------------------------------------------
(* Properties of the tree builder and the statistics, under SpecBuild *)

SumValues(nodes) ==
    LET F[i \in 0..Len(nodes)] == IF i = 0 THEN 0 ELSE F[i - 1] + nodes[i].value
    IN  F[Len(nodes)]

RECURSIVE Conserved(_)
Conserved(node) ==
    /\ node.children # <<>> => node.value = SumValues(node.children)
    /\ \A i \in 1..Len(node.children) : Conserved(node.children[i])

(* C1: weight conservation: in the tree built by from_events every node with
   at least one child, at any depth, has value equal to the sum of its
   children's values. *)
C1_WeightConservation == data # None => Conserved(data[1])

(* a loaded tree of three levels below the root in which a node has two
   children and the root weighs at least three *)
C1_Witness ==
    /\ data # None
    /\ data[1].value >= 3
    /\ \E i \in 1..Len(data[1].children) :
           \E j \in 1..Len(data[1].children[i].children) :
               Len(data[1].children[i].children[j].children) = 2

RECURSIVE Mirrors(_, _)
(* node is the node of event: its label, and the nodes of its spans in order *)
Mirrors(node, event) ==
    /\ node.name = format_details(event)
    /\ Len(node.children) = Len(event.spans)
    /\ \A k \in 1..Len(event.spans) : Mirrors(node.children[k], event.spans[k])

IndicesOf(evs, c) == {i \in 1..Len(evs) : evs[i].context = c}

(* C2: from_events regroups without losing or reordering: the root has one
   child per distinct context of the top-level events and no other, a context
   node's children are the nodes of exactly the top-level events of that
   context in input order, and each event's node has the nodes of its spans
   as children in original order, whatever the spans' own contexts. *)
C2_Regrouped ==
    data # None =>
        LET root == data[1]
            kids == root.children
        IN  /\ Len(kids) = Cardinality(ContextsOf(events))
            /\ {kids[n].name : n \in 1..Len(kids)} = {<<c>> : c \in ContextsOf(events)}
            /\ \A n \in 1..Len(kids) :
                   Len(kids[n].children) = Cardinality(IndicesOf(events, kids[n].name[1]))
            /\ \A i \in 1..Len(events) :
                   LET c == events[i].context
                       rank == Cardinality({k \in IndicesOf(events, c) : k <= i})
                   IN  \A n \in 1..Len(kids) :
                           kids[n].name = <<c>> =>
                               Mirrors(kids[n].children[rank], events[i])

(* two different events of one context were loaded, the first with two spans
   of which one carries another context *)
C2_Witness ==
    /\ data # None
    /\ Len(events) = 2
    /\ events[1].context = events[2].context
    /\ events[1] # events[2]
    /\ Len(events[1].spans) = 2
    /\ events[1].spans[1].context # events[1].context

RECURSIVE AllEvents(_)
(* the events of a forest, nested spans at any depth included *)
AllEvents(evs) ==
    UNION {{evs[i]} \cup AllEvents(evs[i].spans) : i \in 1..Len(evs)}

MinStart(evs) ==
    CHOOSE m \in {e.start : e \in AllEvents(evs)} :
        \A e \in AllEvents(evs) : m <= e.start

MaxEnd(evs) ==
    CHOOSE m \in {e.end : e \in AllEvents(evs)} :
        \A e \in AllEvents(evs) : m >= e.end

(* C3: get_time_range returns None for an empty input and, for every
   non-empty input, Some((m, M)) with m the minimum start and M the maximum
   end over every top-level event and every nested span. *)
C3_TimeRange ==
    get_time_range(events) =
        IF events = <<>> THEN None
        ELSE Some(<<MinStart(events), MaxEnd(events)>>)

(* C4: empty input is a valid state: from_events gives a root without
   children and with value 0, get_time_range gives None, the statistics map
   and table are empty, and a layout pass over that root, at any widget
   size, stores an empty segment list. *)
C4_EmptyInput ==
    (data # None /\ events = <<>>) =>
        /\ data[1] = TreeNode(<<"all">>, 0, <<>>)
        /\ get_time_range(events) = None
        /\ StatsOf(data[1]) = EmptyStats
        /\ stats_store = <<>>
        /\ \A v \in Viewports : Layout(data[1], v[1], v[2], None, <<>>) = <<>>
        /\ ~draw_pending => segments = <<>>

(* the empty file was loaded and painted in a widget with a radial budget *)
C4_Witness ==
    /\ data # None
    /\ events = <<>>
    /\ ~draw_pending
    /\ width = 76
    /\ height = 76

----------------------------------------------------------------------------
(* Properties of the layout pass, under SpecLayout *)

(* the segment list is the layout of the current display root at the current
   widget size: every change of either queues a draw, and none is pending *)
Settled == ~draw_pending /\ DisplayRoot(zoom_node, data) # None

TheRoot == DisplayRoot(zoom_node, data)[1]

MaxRadius == RSub(RMin(Rat(width, 2), Rat(height, 2)), RInt(20))

HasBudget == RLt(RInt(0), MaxRadius)

Span(seg) == RSub(seg.end_angle, seg.start_angle)

RECURSIVE VisibleNodes(_, _)
(* the nodes, with their depths, that no zero-weight node hides: the node
   itself and all its ancestors up to the given one have weight *)
VisibleNodes(node, depth) ==
    IF node.value = 0 THEN {}
    ELSE {<<node, depth>>}
         \cup UNION {VisibleNodes(node.children[i], depth + 1) :
                        i \in 1..Len(node.children)}

(* C5: zero-weight invisibility: no segment of any segment list represents a
   node with value 0, and every segment of a layout pass represents a node
   whose ancestors up to the display root all have weight. *)
C5_ZeroWeightInvisible ==
    /\ \A i \in 1..Len(segments) : segments[i].node.value # 0
    /\ Settled =>
           \A i \in 1..Len(segments) :
               <<segments[i].node, segments[i].depth>> \in VisibleNodes(TheRoot, 0)

(* the weightless root of an empty file was laid out with a radial budget *)
C5_Witness ==
    /\ Settled
    /\ zoom_node = None
    /\ data[1].value = 0
    /\ HasBudget
    /\ segments = <<>>

(* the last index of the block of segments below segment i *)
SubtreeEnd(segs, i) ==
    CHOOSE j \in i..Len(segs) :
        /\ \A k \in (i + 1)..j : segs[k].depth > segs[i].depth
        /\ j = Len(segs) \/ segs[j + 1].depth <= segs[i].depth

ChildIdx(segs, i) ==
    {k \in (i + 1)..SubtreeEnd(segs, i) : segs[k].depth = segs[i].depth + 1}

(* the children's segments of segment i tile its angular interval in the
   stored sibling order, each with the share of its value *)
Tiles(segs, i) ==
    LET parent == segs[i]
        kids == ChildIdx(segs, i)
        n == Len(parent.node.children)
        rank(k) == Cardinality({m \in kids : m <= k})
        at[r \in 1..n] == CHOOSE k \in kids : rank(k) = r
        sum[r \in 0..n] == IF r = 0 THEN RInt(0) ELSE RAdd(sum[r - 1], Span(segs[at[r]]))
    IN  /\ Cardinality(kids) = n
        /\ \A r \in 1..n :
               /\ segs[at[r]].node = parent.node.children[r]
               /\ segs[at[r]].start_angle =
                      IF r = 1 THEN parent.start_angle ELSE segs[at[r - 1]].end_angle
               /\ Span(segs[at[r]]) =
                      RMul(Span(parent), Rat(segs[at[r]].node.value, parent.node.value))
        /\ sum[n] = Span(parent)

(* C6 as claimed: angle conservation for every segment whose node has
   children, at any depth: the children's segments tile the parent's angular
   interval in sibling order with proportional shares that sum to it. *)
C6_AnyDepth ==
    \A i \in 1..Len(segments) :
        segments[i].node.children # <<>> => Tiles(segments, i)

(* the ring after seg's passes draw_node's radial check, within the budget
   of six rings of seg's thickness from the centre *)
NextRingAccepted(seg) ==
    LET budget == RMul(RInt(RingCount), RSub(seg.outer_radius, seg.inner_radius))
        ring == ring_of(RInt(0), budget, seg.depth + 1)
    IN  ~ring_rejected(ring[1], ring[2], budget)

(* C6: angle conservation for every segment of depth below 5 whose node has
   children and whose next ring passes the radial check: its children's
   segments tile its angular interval in stored sibling order, the first
   starting at the parent's start angle, each next where the previous ended,
   each spanning parent span x child.value / parent.value, the spans summing
   to the parent's span. A segment of depth 5 has no child segment. *)
C6_AngleConservation ==
    \A i \in 1..Len(segments) :
        /\ (/\ segments[i].node.children # <<>>
            /\ segments[i].depth < MaxChildDepth
            /\ NextRingAccepted(segments[i]))
               => Tiles(segments, i)
        /\ segments[i].depth >= MaxChildDepth => ChildIdx(segments, i) = {}

(* a segment away from angle 0, two rings out, has two children of which the
   layout drew both *)
C6_Witness ==
    \E i \in 1..Len(segments) :
        /\ Len(segments[i].node.children) = 2
        /\ segments[i].depth = 2
        /\ segments[i].start_angle # RInt(0)
        /\ Cardinality(ChildIdx(segments, i)) = 2

ParentIdx(segs, i) ==
    CHOOSE j \in 1..(i - 1) :
        /\ segs[j].depth = segs[i].depth - 1
        /\ \A k \in (j + 1)..(i - 1) : segs[k].depth # segs[i].depth - 1

(* C7 as claimed: the display root has no segment of its own, and the
   segments with depth 0 are its children. *)
C7_RootNotDrawn ==
    Settled =>
        \A i \in 1..Len(segments) :
            /\ segments[i].node # TheRoot
            /\ segments[i].depth = 0 => segments[i].node \in Range(TheRoot.children)

(* C7: in every layout pass that has a radial budget, a display root with
   weight (the true root, or zoom_node when set) is drawn itself: it is the
   first segment, of depth 0, over the full sweep 0..2 PI in ring 0; every
   other segment has depth d >= 1, represents a child of the nearest
   preceding segment of depth d - 1, and every segment of depth d occupies
   ring d of the six rings. *)
C7_RootIsRingZero ==
    Settled =>
        /\ (TheRoot.value # 0 /\ HasBudget) => segments # <<>>
        /\ segments # <<>> =>
               /\ segments[1].node = TheRoot
               /\ segments[1].depth = 0
               /\ segments[1].start_angle = RInt(0)
               /\ segments[1].end_angle = TwoPi
        /\ \A i \in 2..Len(segments) :
               /\ segments[i].depth >= 1
               /\ \E j \in 1..(i - 1) : segments[j].depth = segments[i].depth - 1
               /\ segments[i].node \in Range(segments[ParentIdx(segments, i)].node.children)
        /\ \A i \in 1..Len(segments) :
               LET t == RDiv(MaxRadius, RInt(RingCount))
               IN  /\ segments[i].inner_radius = RMul(RInt(segments[i].depth), t)
                   /\ segments[i].outer_radius = RMul(RInt(segments[i].depth + 1), t)

(* a zoomed view was laid out: the zoom node is drawn with two rings of
   descendants around it *)
C7_Witness ==
    /\ Settled
    /\ zoom_node # None
    /\ \E i \in 1..Len(segments) : segments[i].depth = 2

RECURSIVE PreOrder(_, _)
(* the pre-order list of the nodes, with depths, of a tree as far as the
   layout reaches: nodes with weight, down to the last ring *)
PreOrder(node, depth) ==
    IF node.value = 0 \/ depth > MaxChildDepth THEN <<>>
    ELSE LET F[i \in 0..Len(node.children)] ==
                 IF i = 0 THEN <<<<node, depth>>>>
                 ELSE F[i - 1] \o PreOrder(node.children[i], depth + 1)
         IN  F[Len(node.children)]

(* C8: the segment list of a layout pass is the pre-order of the drawn tree:
   a node's segment comes before those of its descendants, the segments of a
   subtree are contiguous, and sibling subtrees come in sibling order. *)
C8_PreOrder ==
    Settled =>
        [i \in 1..Len(segments) |-> <<segments[i].node, segments[i].depth>>]
            = IF HasBudget THEN PreOrder(TheRoot, 0) ELSE <<>>

(* a root with two subtrees was laid out, the first of more than one node *)
C8_Witness ==
    /\ Settled
    /\ Len(TheRoot.children) = 2
    /\ TheRoot.children[1].children # <<>>
    /\ Len(segments) >= 5

(* C10: hit-test soundness: the position at the middle of a segment's
   angular range and of its radial range resolves by the hit test to that
   segment, for every segment of every segment list. *)
C10_MidpointHit ==
    \A i \in 1..Len(segments) :
        find_segment(segments, Midpoint(segments[i])) = Some(i - 1)

(* a list of at least four segments holds one whose middle angle is past PI *)
C10_Witness ==
    /\ Len(segments) >= 4
    /\ \E i \in 1..Len(segments) :
           RLt(RInt(1), Half(segments[i].start_angle, segments[i].end_angle))

----------------------------------------------------------------------------
(* Properties of the hit test, under SpecPointer *)

(* the closed radial range and the closed angular range of seg contain p *)
InClosedRanges(seg, p) ==
    LET angle == IF p[2][1] < 0 THEN RAdd(p[2], TwoPi) ELSE p[2]
    IN  /\ RLe(seg.inner_radius, p[1]) /\ RLe(p[1], seg.outer_radius)
        /\ RLe(seg.start_angle, angle) /\ RLe(angle, seg.end_angle)

Containing(segs, p) == {i \in 1..Len(segs) : InClosedRanges(segs[i], p)}

(* the greatest index, counted from 0, among the segments containing p *)
Topmost(segs, p) ==
    IF Containing(segs, p) = {} THEN None
    ELSE Some((CHOOSE m \in Containing(segs, p) :
                  \A k \in Containing(segs, p) : k <= m) - 1)

(* C9: a pointer position resolves to the segment of greatest index among
   those whose closed radial and angular ranges contain it, and to none when
   none does; the motion handler hovers that segment and shows its tooltip,
   the click handler zooms out on it when its depth is 0 and into its node
   otherwise. *)
C9_HitTest ==
    pointer # None =>
        LET handler == pointer[1][1]
            e == Topmost(segments, pointer[1][2])
        IN  /\ hit = e
            /\ handler = "motion" =>
                   /\ hover_segment = e
                   /\ tooltip_text =
                          IF e = None THEN None
                          ELSE Some(format_tooltip(segments[e[1] + 1]))
            /\ (handler = "click" /\ e # None) =>
                   zoom_node = IF segments[e[1] + 1].depth = 0 THEN None
                               ELSE Some(segments[e[1] + 1].node)

(* a click fell on a boundary that two segments share, and the later one
   was taken *)
C9_Witness ==
    /\ pointer # None
    /\ pointer[1][1] = "click"
    /\ Cardinality(Containing(segments, pointer[1][2])) >= 2
    /\ hit = Topmost(segments, pointer[1][2])
    /\ zoom_node # None

----------------------------------------------------------------------------
(* Properties of navigation, under SpecNav *)

(* the rows populate_stats_store may leave for a node, one list per
   iteration order of the statistics map *)
StatsRows(node) == {populate_stats_store(node, o) : o \in StatsOrders(node)}

(* C11: a click released on a position that resolves to a segment of depth
   other than 0 sets zoom_node to that segment's node, empties selected_path,
   reveals the banner, puts the rows of that node's children in the tree
   store and the statistics of that node's subtree in the statistics store,
   and queues a draw. *)
C11_ZoomIn ==
    [][\A p \in NavPoints(segments) :
          LET found == find_segment(segments, p)
          IN  (Click(p) /\ found # None /\ segments[found[1] + 1].depth # 0) =>
                  LET seg == segments[found[1] + 1]
                  IN  /\ zoom_node' = Some(seg.node)
                      /\ selected_path' = <<>>
                      /\ banner_revealed'
                      /\ tree_store' = populate_tree_store(seg.node)
                      /\ stats_store' \in StatsRows(seg.node)
                      /\ draw_pending']_vars

(* a click zoomed into a segment two rings out whose subtree has fewer
   statistics rows than the whole tree *)
C11_Witness ==
    /\ pointer # None
    /\ pointer[1][1] = "click"
    /\ hit # None
    /\ hit[1] + 1 <= Len(segments)
    /\ segments[hit[1] + 1].depth = 2
    /\ zoom_node = Some(segments[hit[1] + 1].node)
    /\ Len(stats_store) < Cardinality(DOMAIN StatsOf(data[1]))
    /\ banner_revealed
    /\ selected_path = <<>>

(* the effects of a zoom-out *)
ZoomedOut ==
    /\ zoom_node' = None
    /\ selected_path' = <<>>
    /\ ~banner_revealed'
    /\ tree_store' = populate_tree_store(data[1])
    /\ stats_store' \in StatsRows(data[1])
    /\ draw_pending'
    /\ data' = data

(* a zoom-out step can be taken: the banner offers its button, and a painted
   list with a radial budget starts with a depth-0 segment whose middle
   resolves to it *)
ZoomOutAvailable ==
    zoom_node # None =>
        /\ banner_revealed
        /\ (Settled /\ HasBudget) =>
               /\ segments # <<>>
               /\ segments[1].depth = 0
               /\ find_segment(segments, Midpoint(segments[1])) = Some(0)

(* C12: a click released on a segment of depth 0, and the banner's reset
   button, leave zoom_node unset, selected_path empty and the banner hidden,
   and fill the tree store and the statistics store from the loaded tree;
   in every zoomed state the reset button is offered, and after a paint with
   a radial budget the depth-0 segment can be clicked. *)
C12_ZoomOut ==
    /\ []ZoomOutAvailable
    /\ [][/\ Reset => ZoomedOut
          /\ \A p \in NavPoints(segments) :
                 LET found == find_segment(segments, p)
                 IN  (Click(p) /\ found # None /\ segments[found[1] + 1].depth = 0)
                         => ZoomedOut]_vars

(* a click on the depth-0 segment of a zoomed view has zoomed out; the list
   of the zoomed view is still stored, its repaint pending *)
C12_Witness ==
    /\ pointer # None
    /\ pointer[1][1] = "click"
    /\ hit = Some(0)
    /\ segments # <<>>
    /\ segments[1].node # data[1]
    /\ zoom_node = None
    /\ ~banner_revealed
    /\ tree_store = populate_tree_store(data[1])
    /\ selected_path = <<>>
    /\ draw_pending

----------------------------------------------------------------------------
(* Properties of pointer events without navigation, under SpecHover *)

(* C13: a click release that hits no segment changes nothing, and a pointer
   move changes at most hover_segment and the tooltip, queueing a draw only
   when the resolved index differs from the stored one; in both cases
   zoom_node, selected_path, the data tree and the segment list are
   unchanged. *)
C13_NoHitNoEffect ==
    [][\A p \in NavPoints(segments) :
          LET found == find_segment(segments, p)
          IN  /\ (Click(p) /\ found = None) =>
                     UNCHANGED <<data, events, zoom_node, segments, hover_segment,
                                 selected_path, banner_revealed, tree_store,
                                 stats_store, period_labels, tooltip_text,
                                 painted, width, height, draw_pending>>
              /\ Motion(p) =>
                     /\ UNCHANGED <<data, events, zoom_node, segments,
                                    selected_path, banner_revealed, tree_store,
                                    stats_store, period_labels, painted,
                                    width, height>>
                     /\ hover_segment' = found
                     /\ draw_pending' = (draw_pending \/ hover_segment # found)]_vars

(* a click on a painted, zoomed view with a selection made hit no segment,
   and nothing is queued *)
C13_Witness ==
    /\ pointer # None
    /\ pointer[1][1] = "click"
    /\ hit = None
    /\ segments # <<>>
    /\ zoom_node # None
    /\ selected_path # <<>>
    /\ ~draw_pending

----------------------------------------------------------------------------
(* Properties of the selection highlighting, under SpecNav *)

(* C14: zoom and selection highlighting exclude each other: in no reachable
   state is zoom_node set while selected_path is non-empty. *)
C14_ZoomExcludesSelection == ~(zoom_node # None /\ selected_path # <<>>)

(* the indices of the segments the last pass painted as selected *)
MarkedSelected == {i \in 1..Len(painted) : painted[i].is_selected}

(* C15: after the tree view reports the selection of a node, selected_path
   is the sequence of node names from the true root down to that node, and
   the next paint marks exactly the segment representing that node; an empty
   selected_path marks no segment. *)
C15_SelectionHighlighted ==
    /\ selected_path # <<>> => selected_path[1] = data[1].name
    /\ (Settled /\ HasBudget /\ zoom_node = None) =>
           IF selected_path = <<>> THEN MarkedSelected = {}
           ELSE \E i \in 1..Len(segments) :
                    /\ MarkedSelected = {i}
                    /\ segments[i].node.name = selected_path[Len(selected_path)]
                    /\ segments[i].depth = Len(selected_path) - 1

----------------------------------------------------------------------------
(* Properties of the zoom round trip, under SpecTrip *)

(* C16: zoom round trip: after the unzoomed view was painted, a segment of
   depth other than 0 clicked, and then the depth-0 segment clicked or the
   reset button pressed, the paint that follows at the same widget size
   stores a segment list identical to the one before the zoom-in. *)
C16_ZoomRoundTrip ==
    (/\ pre_zoom # None
     /\ pre_zoom[1].back
     /\ ~draw_pending
     /\ width = pre_zoom[1].width
     /\ height = pre_zoom[1].height)
        => segments = pre_zoom[1].segs

(* a painted view of at least four segments was zoomed into and out of
   again, and repainted at its size *)
C16_Witness ==
    /\ pre_zoom # None
    /\ pre_zoom[1].back
    /\ ~draw_pending
    /\ width = pre_zoom[1].width
    /\ zoom_node = None
    /\ Len(segments) >= 4
    /\ segments = pre_zoom[1].segs

----------------------------------------------------------------------------
(* Properties of the statistics, under SpecStats *)

RECURSIVE NodesOf(_)
(* the bag of the nodes of a tree, as the set of <<path of child indices, node>> *)
NodesOf(node) ==
    {<<<<>>, node>>}
    \cup UNION {{<<<<i>> \o pn[1], pn[2]>> : pn \in NodesOf(node.children[i])} :
                   i \in 1..Len(node.children)}

(* the details of a label: what stands between its first "[" and the first
   "]" after it, without the commas *)
DetailsOf(label) ==
    LET opens == {i \in 1..Len(label) : label[i] = "["}
        first == CHOOSE i \in opens : \A j \in opens : i <= j
        closes == {i \in (first + 1)..Len(label) : label[i] = "]"}
        last == CHOOSE i \in closes : \A j \in closes : i <= j
    IN  IF opens = {} \/ closes = {} THEN <<>>
        ELSE SelectSeq(SubSeq(label, first + 1, last - 1), LAMBDA t : t # ",")

(* the key a label is counted under: None, or Some(key) *)
KeyOf(label) ==
    LET counted == SelectSeq(DetailsOf(label), LAMBDA t : ~ends_with_bits(t))
    IN  IF starts_with(label[1], "pk::") /\ counted # <<>>
        THEN Some(counted[1]) ELSE None

(* the sum of the values of the nodes of a tree counted under key *)
WeightOf(tree, key) ==
    LET hits == {pn \in NodesOf(tree) : KeyOf(pn[2].name) = Some(key)}
        paths == {pn[1] : pn \in hits}
        at(path) == (CHOOSE pn \in hits : pn[1] = path)[2]
        RECURSIVE Sum(_)
        Sum(S) == IF S = {} THEN 0
                  ELSE LET x == CHOOSE x \in S : TRUE
                       IN  at(x).value + Sum(S \ {x})
    IN  Sum(paths)

KeysOf(tree) ==
    {KeyOf(pn[2].name)[1] : pn \in {q \in NodesOf(tree) : KeyOf(q[2].name) # None}}

(* C17: extract_algorithm_stats visits every node of the tree and adds, for
   each key k, the value of every node whose label begins with pk:: and whose
   first bracketed detail not ending in "bits" is k; other nodes contribute
   nothing, and their children are still visited. *)
C17_StatsAccumulated ==
    data # None =>
        /\ ~panicked
        /\ DOMAIN StatsOf(data[1]) = KeysOf(data[1])
        /\ \A k \in KeysOf(data[1]) : StatsOf(data[1])[k] = WeightOf(data[1], k)

----------------------------------------------------------------------------
(* Properties of the statistics rows, under SpecLayout *)

(* the sum of the weights of a statistics map *)
TotalOf(stats) ==
    LET RECURSIVE Sum(_)
        Sum(S) == IF S = {} THEN 0
                  ELSE LET k == CHOOSE k \in S : TRUE
                       IN  stats[k] + Sum(S \ {k})
    IN  Sum(DOMAIN stats)

(* C18: the rows of the statistics store are those of the node last
   projected and no others (the previous rows are removed first), ordered by
   non-increasing weight, each with its weight and with the percentage
   weight / sum of all weights x 100 rounded to the nearest integer. *)
C18_StatsRows ==
    data # None =>
        LET stats == StatsOf(DisplayRoot(zoom_node, data)[1])
            total == TotalOf(stats)
            rows == stats_store
        IN  /\ Len(rows) = Cardinality(DOMAIN stats)
            /\ {rows[i].algorithm : i \in 1..Len(rows)} = DOMAIN stats
            /\ \A i \in 1..Len(rows) :
                   /\ rows[i].count = ToString(stats[rows[i].algorithm])
                   /\ \A j \in (i + 1)..Len(rows) :
                          stats[rows[i].algorithm] >= stats[rows[j].algorithm]
                   /\ \E pct \in 0..100 :
                          /\ rows[i].percentage = ToString(pct) \o "%"
                          /\ 2 * Abs(100 * stats[rows[i].algorithm] - pct * total)
                                 <= total

(* a click on the depth-0 segment projected the statistics again over the
   rows already there: rsa 2 and ecdsa 1 give 67% and 33% *)
C18_Witness ==
    /\ pointer # None
    /\ pointer[1][1] = "click"
    /\ hit = Some(0)
    /\ stats_store =
           <<[algorithm |-> "rsa", count |-> "2", percentage |-> "67%"],
             [algorithm |-> "ecdsa", count |-> "1", percentage |-> "33%"]>>

----------------------------------------------------------------------------
(* Properties of the labels, under SpecLabel *)

VersionTable == (772 :> "TLS 1.3") @@ (771 :> "TLS 1.2")

SignatureTable == (1027 :> "ecdsa_secp256r1_sha256") @@ (2052 :> "rsa_pss_rsae_sha256")

GroupTable == (23 :> "secp256r1") @@ (4588 :> "X25519MLKEM768")

(* the attribute under key of map m when it is a number, decoded by table,
   numbers outside the table by other *)
Decoded(m, key, table, other(_)) ==
    IF key \in DOMAIN m /\ m[key].kind = "num"
    THEN <<IF m[key].num \in DOMAIN table THEN table[m[key].num]
           ELSE other(m[key].num)>>
    ELSE <<>>

(* the label the labelling rule gives an event *)
LabelByRule(event) ==
    LET m == event.events
        nm == IF "name" \in DOMAIN m /\ m["name"].kind = "str"
              THEN m["name"].str ELSE "unknown"
        attrs ==
            CASE nm \in {"tls::handshake_client", "tls::handshake_server"} ->
                    Decoded(m, "tls::protocol_version", VersionTable,
                            LAMBDA n : "version " \o ToString(n))
                    \o (IF "tls::ciphersuite" \in DOMAIN m
                        THEN <<"ciphersuite " \o JsonText(m["tls::ciphersuite"])>>
                        ELSE <<>>)
              [] nm \in {"tls::sign", "tls::verify"} ->
                    Decoded(m, "tls::signature_algorithm", SignatureTable,
                            LAMBDA n : "unknown")
              [] nm = "tls::key_exchange" ->
                    Decoded(m, "tls::group", GroupTable, LAMBDA n : "unknown")
              [] nm \in {"pk::sign", "pk::verify"} ->
                    (IF "pk::algorithm" \in DOMAIN m /\ m["pk::algorithm"].kind = "str"
                     THEN <<m["pk::algorithm"].str>> ELSE <<>>)
                    \o (IF "pk::bits" \in DOMAIN m
                        THEN <<JsonText(m["pk::bits"]) \o " bits">> ELSE <<>>)
              [] OTHER -> <<>>
        n == Len(attrs)
    IN  IF n = 0 THEN <<nm>>
        ELSE <<nm, "[">>
             \o [i \in 1..(2 * n - 1) |-> IF i % 2 = 1 THEN attrs[(i + 1) \div 2] ELSE ","]
             \o <<"]">>

(* C19: labelling rule: format_details gives the operation name alone when
   no attribute is decoded and otherwise the name followed by the bracketed,
   comma-separated attributes in table order: protocol version and cipher
   suite for tls::handshake_*, signature algorithm for tls::sign and
   tls::verify, group for tls::key_exchange, algorithm and bit length for
   pk::*, nothing for any other name; the event's node carries that label. *)
C19_LabellingRule ==
    data # None =>
        \A i \in 1..Len(events) :
            /\ format_details(events[i]) = LabelByRule(events[i])
            /\ \E c \in 1..Len(data[1].children) :
                   \E k \in 1..Len(data[1].children[c].children) :
                       data[1].children[c].children[k].name = LabelByRule(events[i])

(* a handshake with a protocol version outside the table and a cipher suite
   was loaded, with attributes of other operations beside them *)
C19_Witness ==
    /\ data # None
    /\ Len(events) = 1
    /\ "pk::algorithm" \in DOMAIN events[1].events
    /\ data[1].children[1].children[1].name =
           <<"tls::handshake_server", "[", "version 770", ",",
             "ciphersuite \"TLS_AES\"", "]">>

----------------------------------------------------------------------------
(* Properties of navigation across loads, under SpecReload *)

(* the nodes of the tree under node, node included *)
SubtreesOf(node) == {pn[2] : pn \in NodesOf(node)}

(* C20: navigation on stale state is harmless: once a repaint has run after
   the most recent data load (and after every later click), the zoom root,
   when set, is a subtree of the currently loaded tree and every segment of
   the segment list represents a node of the currently loaded tree. *)
C20_StaleNavigationHarmless ==
    (data # None /\ ~draw_pending) =>
        /\ zoom_node # None => zoom_node[1] \in SubtreesOf(data[1])
        /\ \A i \in 1..Len(segments) : segments[i].node \in SubtreesOf(data[1])

----------------------------------------------------------------------------
(* Properties of the hover index across repaints, under SpecHover *)

(* C21: hover index valid: whenever no repaint is outstanding,
   hover_segment is unset or an index into the current segment list
   (index < number of segments); a repaint after a zoom change never leaves
   it pointing past the end of the rebuilt list. *)
C21_HoverIndexValid ==
    ~draw_pending =>
        (hover_segment # None => hover_segment[1] < Len(segments))

----------------------------------------------------------------------------
(* Properties of the rings, under SpecRing *)

(* C22: ring geometry and depth cap: with ring thickness t a sixth of the
   radial budget, every segment of a layout pass has a depth d in 0..5 and
   lies in ring d, from d * t to (d + 1) * t, a ring that is not empty and
   ends within the budget; the nodes with weight down to the sixth ring all
   have a segment and deeper ones have none, however deep the tree is; and
   without a positive radial budget the pass produces no segment. *)
C22_RingGeometry ==
    Settled =>
        LET t == RDiv(MaxRadius, RInt(RingCount))
        IN  /\ \A i \in 1..Len(segments) :
                   LET seg == segments[i]
                   IN  /\ seg.depth \in 0..(RingCount - 1)
                       /\ seg.inner_radius = RMul(RInt(seg.depth), t)
                       /\ seg.outer_radius = RMul(RInt(seg.depth + 1), t)
                       /\ RLt(seg.inner_radius, seg.outer_radius)
                       /\ RLe(seg.outer_radius, MaxRadius)
            /\ HasBudget =>
                   {<<segments[i].node, segments[i].depth>> : i \in 1..Len(segments)}
                       = {vn \in VisibleNodes(TheRoot, 0) : vn[2] < RingCount}
            /\ ~HasBudget => segments = <<>>

(* a tree deeper than the rings was laid out with a radial budget: a segment
   of the sixth ring represents a node that has children *)
C22_Witness ==
    /\ Settled
    /\ HasBudget
    /\ \E i \in 1..Len(segments) :
           /\ segments[i].depth = RingCount - 1
           /\ segments[i].node.children # <<>>
           /\ segments[i].node.children[1].value # 0

----------------------------------------------------------------------------
(* Properties of the node values, under SpecBuild *)

RECURSIVE SpanlessEvents(_)
(* the number of events without spans among an event and its spans, nested
   ones included *)
SpanlessEvents(event) ==
    IF event.spans = <<>> THEN 1
    ELSE LET sum[i \in 0..Len(event.spans)] ==
                 IF i = 0 THEN 0 ELSE sum[i - 1] + SpanlessEvents(event.spans[i])
         IN  sum[Len(event.spans)]

(* the number of nodes without children in the tree under node *)
ChildlessUnder(node) == Cardinality({pn \in NodesOf(node) : pn[2].children = <<>>})

(* C23: node values count span-less events: in the tree from_events builds,
   each event node without spans has value exactly 1, every node with
   children has as its value the number of span-less events of its subtree
   (an event with spans does not count itself, and the event count a context
   node starts with is overwritten), every node except the root of an empty
   input has value >= 1, and root.value is the number of span-less events of
   the whole input. *)
C23_ValuesCountSpanless ==
    data # None =>
        /\ \A pn \in NodesOf(data[1]) :
               LET node == pn[2]
                   is_root == pn[1] = <<>>
               IN  /\ (node.children = <<>> /\ ~is_root) => node.value = 1
                   /\ node.children # <<>> => node.value = ChildlessUnder(node)
                   /\ (~is_root \/ events # <<>>) => node.value >= 1
        /\ LET sum[i \in 0..Len(events)] ==
                   IF i = 0 THEN 0 ELSE sum[i - 1] + SpanlessEvents(events[i])
           IN  data[1].value = sum[Len(events)]

(* two events of one context were loaded, one of them with two span-less
   spans: the context node started with the count 2 and weighs 3 *)
C23_Witness ==
    /\ data # None
    /\ Len(events) = 2
    /\ Len(data[1].children) = 1
    /\ data[1].children[1].value = 3
    /\ \E k \in 1..2 :
           /\ Len(data[1].children[1].children[k].children) = 2
           /\ data[1].children[1].children[k].value = 2

----------------------------------------------------------------------------
(* Properties of the period labels across loads, under SpecPeriod *)

(* the three label texts that show the range from s to e *)
PeriodTexts(s, e) ==
    <<"Start: " \o TimeText(s), "End: " \o TimeText(e),
      "Duration: " \o ToString(e - s) \o "ns">>

(* the labels show a range that is not the time range of the loaded events *)
ShowsOtherRange ==
    \E s \in Times, e \in Times :
        /\ period_labels = PeriodTexts(s, e)
        /\ get_time_range(events) # Some(<<s, e>>)

(* C24: after every data load the three period labels are derived from
   get_time_range of the events just loaded: they show that range when it
   exists and runs forward, and they never show the range of an event set
   loaded before, also when the loaded set has no time range or a maximum
   end earlier than its minimum start. *)
C24_PeriodLabelsFollowLoad ==
    data # None =>
        /\ ~ShowsOtherRange
        /\ LET range == get_time_range(events)
           IN  (range # None /\ range[1][1] <= range[1][2])
                   => period_labels = PeriodTexts(range[1][1], range[1][2])

====
